---- MODULE Spec2Model ----
(***************************************************************************)
(* RedLens: the scrape-progress / resume state machine of                  *)
(* red_lens/pipeline.py over the two tables of red_lens/db.py.             *)
(*                                                                         *)
(* The database (bloggers, notes), the crawler's json directory and the   *)
(* position of the one running pipeline call are the state.  The external  *)
(* crawler is a black box: each invocation succeeds or fails and may leave *)
(* a new creator_contents file.  What a json file holds is decided outside *)
(* the pipeline (by the crawler that wrote it), so the directory records   *)
(* which files exist and who wrote them, and the content is drawn when     *)
(* load_notes_from_json reads the file.                                    *)
(*                                                                         *)
(* Spec is collection with the fans filter off; SpecFans adds Phase 1 of   *)
(* scrape_pending_bloggers (the fans filter); SpecExec takes one crawler   *)
(* batch run apart into its invocations and their processes.               *)
(* SpecExecLive is SpecExec under the scheduling the executor has;         *)
(* SpecConfig follows the crawler's config files through the batch run;    *)
(* SpecResume repeats successful resume runs over a fixed source;          *)
(* SpecMerge puts the analyzer's writes between resume runs.               *)
(***************************************************************************)
EXTENDS Integers, Sequences, FiniteSets, TLC

\* ------------------------------------------------------------------ bounds
NumUsers == 2      \* bloggers in the table, created in the order 1, 2, ...
NumNotes == 2      \* distinct note ids the crawler can return
MaxNotes == 2      \* largest max_notes a caller passes
MaxOut == 2        \* most records in one crawler output file
MaxCalls == 2      \* pipeline calls in one behaviour
MaxOps == 1        \* operator actions (resets, outside writers) in one behaviour

\* ------------------------------------------------------- program constants
DefaultTarget == 100     \* notes_target INTEGER DEFAULT 100

Users == 1..NumUsers
NoteIds == 1..NumNotes
NoUser == 0              \* a note id that is not stored has owner NoUser
NULL == "NULL"

Min(a, b) == IF a < b THEN a ELSE b
Max(a, b) == IF a > b THEN a ELSE b

Range(s) == {s[i] : i \in DOMAIN s}

Take(s, n) == SubSeq(s, 1, Min(Max(n, 0), Len(s)))

\* The sequences without repetition over a set: every order of every subset.
RECURSIVE Orders(_)
Orders(S) ==
    IF S = {} THEN {<<>>}
    ELSE UNION {{<<x>> \o t : t \in Orders(S \ {x})} : x \in S}

DistinctSeqs(S) == UNION {Orders(T) : T \in SUBSET S}

\* A set of integers as the sequence in increasing order.
RECURSIVE Ascending(_)
Ascending(S) ==
    IF S = {} THEN <<>>
    ELSE LET m == CHOOSE x \in S : \A y \in S : x <= y
         IN <<m>> \o Ascending(S \ {m})

\* ---------------------------------------------------- crawler output files
\* One item record of an output file: note id and owning user id (the other
\* fields of clean_note_data never reach the progress logic).
Records == [note_id : NoteIds, user_id : Users]

RecKey(r) == (r.note_id * (NumUsers + 1)) + r.user_id

\* The content of a file is a list of records.  Grouping by user and the
\* keyed insert make the outcome independent of the order of the list, so
\* files are drawn in one canonical order (repetitions allowed).
RECURSIVE FilesOfLen(_)
FilesOfLen(n) ==
    IF n = 0 THEN {<<>>}
    ELSE {Append(f, r) : f \in FilesOfLen(n - 1), r \in Records}

Canonical(f) == \A i \in 1..(Len(f) - 1) : RecKey(f[i]) <= RecKey(f[i + 1])

Files == UNION {{f \in FilesOfLen(n) : Canonical(f)} : n \in 0..MaxOut}

VARIABLES
    bloggers,       \* table bloggers: user_id -> row
    notes,          \* table notes: note_id -> owning user_id (NoUser: no row)
    creator_files,  \* data/xhs/json/creator_contents_*.json: writer of the latest
    search_files,   \* data/xhs/json/search_contents_*.json: writer of the latest
    pc,             \* position of the running call
    fn,             \* which operation is running
    args,           \* the call's arguments
    scope,          \* qualified_bloggers / target_bloggers of the call
    crawl,          \* the crawler run: ids, budget, exclusion map, outcomes
    latest_file,    \* the file content the reconciler loaded
    idx,            \* loop index of the reconciliation loop
    stats,          \* the stats dictionary
    pre,            \* history: bloggers, notes and candidates when the call began
    trace,          \* history: what the call did to each blogger
    ncalls,         \* calls begun
    nops,           \* operator actions taken
    exec,           \* the crawler executor: one batch run, process by process
    derived         \* table notes: note_id -> is_outlier, local_cover_path

db == <<bloggers, notes>>
fs == <<creator_files, search_files>>
local == <<fn, args, scope, crawl, latest_file, idx, stats, pre, trace>>
pipeline == <<bloggers, notes, creator_files, search_files, pc, fn, args, scope,
              crawl, latest_file, idx, stats, pre, trace, ncalls, nops, derived>>
vars == <<bloggers, notes, creator_files, search_files, pc, fn, args, scope,
          crawl, latest_file, idx, stats, pre, trace, ncalls, nops, exec, derived>>

\* ------------------------------------------------------------ red_lens/db.py
\* A row of table bloggers as init_db creates it through insert_blogger.
NewBlogger ==
    [status |-> "pending", notes_collected |-> 0, notes_target |-> DefaultTarget,
     scrape_status |-> "not_started", failure_reason |-> NULL, current_fans |-> 0]

get_scrape_progress(b, u) == b[u]

\* An update that writes failure_reason only when a reason is given.
update_scrape_progress_KeepsReason(b, u, collected, target, scrape_status, reason) ==
    [b EXCEPT ![u] = [@ EXCEPT !.notes_collected = collected,
                               !.notes_target = target,
                               !.scrape_status = scrape_status,
                               !.failure_reason = IF reason = NULL THEN @ ELSE reason]]

update_scrape_progress(b, u, collected, target, scrape_status, reason) ==
    [b EXCEPT ![u] = [@ EXCEPT !.notes_collected = collected,
                               !.notes_target = target,
                               !.scrape_status = scrape_status,
                               !.failure_reason = reason]]

update_status(b, u, status) == [b EXCEPT ![u] = [@ EXCEPT !.status = status]]

update_fans(b, u, fans) == [b EXCEPT ![u] = [@ EXCEPT !.current_fans = fans]]

\* WHERE status = 'pending' ORDER BY created_at ASC LIMIT limit
get_pending_bloggers(b, limit) ==
    Take(Ascending({u \in Users : b[u].status = "pending"}), limit)

ResumableSet(b) ==
    {u \in Users : /\ b[u].scrape_status = "partial"
                   /\ b[u].notes_collected < b[u].notes_target}

count_resumable_bloggers(b) == Cardinality(ResumableSet(b))

\* ORDER BY last_scrape_time DESC, with LIMIT only when limit is truthy.
\* The wall clock is not part of the state: by_time is any order of the
\* resumable rows.
get_resumable_bloggers(by_time, limit) ==
    IF limit # 0 THEN Take(by_time, limit) ELSE by_time

\* An insert that removes the row when the note is already stored.
insert_note_Toggle(n, note_id, user_id) ==
    IF n[note_id] = user_id THEN [n EXCEPT ![note_id] = NoUser]
    ELSE [n EXCEPT ![note_id] = user_id]

\* INSERT OR REPLACE INTO notes: the row of note_id becomes the new one.
insert_note(n, note_id, user_id) == [n EXCEPT ![note_id] = user_id]

get_note_ids_by_user(n, u) == {x \in NoteIds : n[x] = u}

count_notes_by_user(n, u) == Cardinality(get_note_ids_by_user(n, u))

\* ------------------------------------------------------ red_lens/pipeline.py
\* notes_by_user[u] of the loaded file ([] stands for "u not in notes_by_user").
RECURSIVE NotesOfUser(_, _)
NotesOfUser(file, u) ==
    IF file = <<>> THEN <<>>
    ELSE IF Head(file).user_id = u
         THEN <<Head(file)>> \o NotesOfUser(Tail(file), u)
         ELSE NotesOfUser(Tail(file), u)

\* The derived columns of a row as INSERT writes it: is_outlier DEFAULT 0,
\* local_cover_path NULL (insert_note names neither column).
NoDerived == [is_outlier |-> FALSE, local_cover_path |-> NULL]

\* insert_note on the derived columns: INSERT OR REPLACE writes a new row.
insert_note_derived(d, note_id) == [d EXCEPT ![note_id] = NoDerived]

\* The insert loop over user_notes, on the derived columns.
RECURSIVE SaveDerived(_, _)
SaveDerived(d, user_notes) ==
    IF user_notes = <<>> THEN d
    ELSE SaveDerived(insert_note_derived(d, Head(user_notes).note_id),
                     Tail(user_notes))

\* The insert loop over user_notes.
RECURSIVE SaveNotes(_, _)
SaveNotes(n, user_notes) ==
    IF user_notes = <<>> THEN n
    ELSE SaveNotes(insert_note(n, Head(user_notes).note_id, Head(user_notes).user_id),
                   Tail(user_notes))

\* A split that stops at the last full batch and drops the remainder.
Chunks_DropsRemainder(ids, batch_size) ==
    IF Len(ids) > batch_size
    THEN [i \in 1..(Len(ids) \div batch_size) |->
             SubSeq(ids, (i - 1) * batch_size + 1, i * batch_size)]
    ELSE <<ids>>

\* range(0, len(user_ids), batch_size) when len(user_ids) > batch_size,
\* else the one batch.
Chunks(ids, batch_size) ==
    IF Len(ids) > batch_size
    THEN [i \in 1..((Len(ids) + batch_size - 1) \div batch_size) |->
             SubSeq(ids, (i - 1) * batch_size + 1, Min(i * batch_size, Len(ids)))]
    ELSE <<ids>>

\* load_notes_from_json(max(files, key=mtime)): the cleaned records of the
\* latest file, [] for a file that does not parse.
load_notes_from_json(files, content) == content

\* The tag of a file written by chunk number chunk of call number run.
WrittenBy(run, chunk) == <<[run |-> run, chunk |-> chunk]>>

ZeroStats ==
    [scraped |-> 0, failed |-> 0, notes_added |-> 0, skipped_low_fans |-> 0,
     resumed |-> 0]

NoCrawl ==
    [ids |-> <<>>, max_notes |-> 0, exclude |-> <<>>, chunk |-> 0,
     all_success |-> TRUE, outcomes |-> <<>>]

\* No fans count was looked up.
NoFans == -1

NoTrace ==
    [u \in Users |-> [branch |-> "none", counted |-> FALSE, c |-> 0, k |-> 0, t |-> 0,
                      fans |-> NoFans]]

NoArgs == [max_notes |-> 0, batch_size |-> 0]

\* The crawler's config files as they are before the pipeline touches them:
\* base_config.py (CRAWLER_TYPE, CRAWLER_MAX_NOTES_COUNT, ENABLE_GET_COMMENTS)
\* and xhs_config.py (XHS_EXCLUDE_NOTE_IDS_MAP, XHS_CREATOR_ID_LIST).  The
\* exclusion map is held by the number of note ids it lists (see NoteIdList),
\* 0 for the empty map.
OrigBase == [crawler_type |-> "search", max_notes |-> 0, comments |-> TRUE]
OrigXhs == [exclude |-> 0, creators |-> <<>>]

\* The configuration no crawler process has read yet.
NoSeen == [max_notes |-> 0, exclude |-> 0, creators |-> <<>>]

\* The executor at rest: no batch run has been asked for.  A backup file
\* (*.pipeline_backup) is <<>> when absent, <<content>> when present.
NoExec ==
    [caller |-> "none", user_ids |-> <<>>, max_notes |-> 0, batch_size |-> 0,
     chunks |-> <<>>, chunk |-> 0, step |-> "idle", proc |-> "none",
     return_code |-> 0, active |-> 0, invoked |-> <<>>, timeout |-> 0,
     all_success |-> TRUE, result |-> "none",
     stored |-> 0, base |-> OrigBase, xhs |-> OrigXhs,
     base_backup |-> <<>>, xhs_backup |-> <<>>,
     before |-> [base |-> OrigBase, xhs |-> OrigXhs], seen |-> NoSeen]

Init ==
    /\ bloggers = [u \in Users |-> NewBlogger]
    /\ notes = [x \in NoteIds |-> NoUser]
    /\ creator_files = <<>>
    /\ search_files = <<>>
    /\ pc = "idle"
    /\ fn = "none"
    /\ args = NoArgs
    /\ scope = <<>>
    /\ crawl = NoCrawl
    /\ latest_file = <<>>
    /\ idx = 0
    /\ stats = ZeroStats
    /\ pre = [bloggers |-> bloggers, notes |-> notes, targets |-> <<>>]
    /\ trace = NoTrace
    /\ ncalls = 0
    /\ nops = 0
    /\ exec = NoExec
    /\ derived = [x \in NoteIds |-> NoDerived]

\* --------------------------------------------- scrape_pending_bloggers: begin
\* A marking loop that writes notes_collected = 0 instead of the stored count.
RECURSIVE MarkInProgressPending_ResetsCollected(_, _, _)
MarkInProgressPending_ResetsCollected(b, ids, max_notes) ==
    IF ids = <<>> THEN b
    ELSE MarkInProgressPending_ResetsCollected(
             update_scrape_progress(b, Head(ids), 0, max_notes, "in_progress", NULL),
             Tail(ids), max_notes)

\* The loop that marks the run's bloggers in_progress before the crawler runs.
RECURSIVE MarkInProgressPending(_, _, _)
MarkInProgressPending(b, ids, max_notes) ==
    IF ids = <<>> THEN b
    ELSE LET progress == get_scrape_progress(b, Head(ids))
         IN MarkInProgressPending(
                update_scrape_progress(b, Head(ids), progress.notes_collected,
                                       max_notes, "in_progress", NULL),
                Tail(ids), max_notes)

\* A map that has an entry for every blogger of the run.
BuildExcludeMap_EveryUser(n, ids) ==
    [u \in Range(ids) |-> get_note_ids_by_user(n, u)]

\* exclude_note_ids_map: an entry for each blogger that has stored notes.
BuildExcludeMap(n, ids) ==
    [u \in {v \in Range(ids) : get_note_ids_by_user(n, v) # {}} |->
        get_note_ids_by_user(n, u)]

NewCrawl(ids, budget, exclude) ==
    [ids |-> ids, max_notes |-> budget, exclude |-> exclude, chunk |-> 1,
     all_success |-> TRUE, outcomes |-> <<>>]

\* Phase 2 up to the crawler invocation, for the qualified bloggers.
Phase2(a, qualified, b, st, f) ==
    /\ scope' = qualified
    /\ stats' = st
    /\ IF qualified = <<>> \/ (a.use_existing_data /\ search_files = <<>>)
       THEN /\ pc' = "returned"
            /\ bloggers' = b
            /\ crawl' = NoCrawl
            /\ latest_file' = <<>>
            /\ idx' = 0
       ELSE IF a.use_existing_data
       THEN /\ pc' = "reconcile"
            /\ bloggers' = b
            /\ crawl' = NoCrawl
            /\ latest_file' = load_notes_from_json(search_files, f)
            /\ idx' = 1
       ELSE /\ pc' = "crawl"
            /\ bloggers' = MarkInProgressPending(b, qualified, a.max_notes)
            /\ crawl' = NewCrawl(qualified, a.max_notes, BuildExcludeMap(notes, qualified))
            /\ latest_file' = <<>>
            /\ idx' = 0

\* A switch that runs the fans filter for every min_fans.
FansFilterEnabled_Always(min_fans) == min_fans >= 0

\* "if min_fans > 0:" (Phase 1 runs), else "qualified_bloggers = target_bloggers".
FansFilterEnabled(min_fans) == min_fans > 0

scrape_pending_bloggers(limit, use_existing_data, max_notes, min_fans, resume_partial, batch_size, by_time, f) ==
    /\ pc \in {"idle", "returned"}
    /\ ncalls < MaxCalls
    /\ LET a == [limit |-> limit, use_existing_data |-> use_existing_data,
                 max_notes |-> max_notes, min_fans |-> min_fans,
                 resume_partial |-> resume_partial, batch_size |-> batch_size]
           pending_bloggers == get_pending_bloggers(bloggers, limit)
           resumable_count == count_resumable_bloggers(bloggers)
           resumable_bloggers ==
               IF resume_partial /\ resumable_count > 0
               THEN get_resumable_bloggers(by_time, limit)
               ELSE <<>>
           target_bloggers ==
               resumable_bloggers
                 \o Take(pending_bloggers, Max(0, limit - Len(resumable_bloggers)))
       IN /\ fn' = "pending"
          /\ args' = a
          /\ pre' = [bloggers |-> bloggers, notes |-> notes, targets |-> target_bloggers]
          /\ trace' = NoTrace
          /\ ncalls' = ncalls + 1
          /\ IF target_bloggers # <<>> /\ FansFilterEnabled(min_fans)
             THEN /\ pc' = "fans"
                  /\ scope' = target_bloggers
                  /\ stats' = ZeroStats
                  /\ crawl' = NoCrawl
                  /\ latest_file' = <<>>
                  /\ idx' = 0
                  /\ UNCHANGED bloggers
             ELSE Phase2(a, target_bloggers, bloggers, ZeroStats, f)
    /\ UNCHANGED <<notes, derived, creator_files, search_files, nops, exec>>

\* ------------------------------------------------- Phase 1: the fans filter
\* A filter loop that marks a candidate below min_fans and keeps it qualified.
RECURSIVE FilterByFans_KeepsLowFans(_, _, _, _)
FilterByFans_KeepsLowFans(acc, rest, fans_dict, min_fans) ==
    IF rest = <<>> THEN acc
    ELSE LET user_id == Head(rest)
             fans_count == fans_dict[user_id]
             b1 == update_fans(acc.b, user_id, fans_count)
         IN IF fans_count < min_fans
            THEN FilterByFans_KeepsLowFans(
                     [b |-> update_status(b1, user_id, "error"),
                      st |-> [acc.st EXCEPT !.skipped_low_fans = @ + 1],
                      q |-> Append(acc.q, user_id)],
                     Tail(rest), fans_dict, min_fans)
            ELSE FilterByFans_KeepsLowFans(
                     [b |-> b1, st |-> acc.st, q |-> Append(acc.q, user_id)],
                     Tail(rest), fans_dict, min_fans)

\* The filter loop over target_bloggers: acc = [b, st, q].
RECURSIVE FilterByFans(_, _, _, _)
FilterByFans(acc, rest, fans_dict, min_fans) ==
    IF rest = <<>> THEN acc
    ELSE LET user_id == Head(rest)
             fans_count == fans_dict[user_id]
             b1 == update_fans(acc.b, user_id, fans_count)
         IN IF fans_count < min_fans
            THEN FilterByFans(
                     [b |-> update_status(b1, user_id, "error"),
                      st |-> [acc.st EXCEPT !.skipped_low_fans = @ + 1],
                      q |-> acc.q],
                     Tail(rest), fans_dict, min_fans)
            ELSE FilterByFans(
                     [b |-> b1, st |-> acc.st, q |-> Append(acc.q, user_id)],
                     Tail(rest), fans_dict, min_fans)

\* fetch_creators_fans_batch and the filter: the lookup run leaves a fans
\* count for each id (0 when the run failed or listed no such creator) and
\* may leave a creator_contents file.
FansFilter(fans_dict, wrote, f) ==
    /\ pc = "fans"
    /\ LET r == FilterByFans([b |-> bloggers, st |-> stats, q |-> <<>>],
                             scope, fans_dict, args.min_fans)
       IN Phase2(args, r.q, r.b, r.st, f)
    /\ trace' = [u \in Users |->
                    IF u \in Range(scope)
                    THEN [trace[u] EXCEPT
                              !.fans = fans_dict[u],
                              !.branch = IF fans_dict[u] < args.min_fans
                                         THEN "low_fans" ELSE @]
                    ELSE trace[u]]
    /\ creator_files' = IF wrote THEN WrittenBy(ncalls, 0) ELSE creator_files
    /\ UNCHANGED <<notes, derived, search_files, fn, args, pre, ncalls, nops, exec>>

\* ------------------------------------------------------ the crawler invocation
\* _run_mediacrawler_for_creators_single_batch for the next chunk of
\* run_mediacrawler_for_creators_batch: the process ends with return code 0
\* (ok) or not (non-zero, timeout and kill, exception), and may have written
\* a creator_contents file.  all_success is the value the batch run returns.
CrawlChunk(ok, wrote) ==
    /\ pc = "crawl"
    /\ crawl' = [crawl EXCEPT !.chunk = @ + 1,
                              !.all_success = @ /\ ok,
                              !.outcomes = Append(@, ok)]
    /\ creator_files' = IF wrote THEN WrittenBy(ncalls, crawl.chunk) ELSE creator_files
    /\ pc' = IF crawl.chunk = Len(Chunks(crawl.ids, args.batch_size))
             THEN "after_crawl" ELSE "crawl"
    /\ UNCHANGED <<bloggers, notes, derived, search_files, fn, args, scope, latest_file,
                   idx, stats, pre, trace, ncalls, nops, exec>>

\* A failure branch that writes notes_collected = 0.
RECURSIVE MarkBatchFailedPending_ResetsCollected(_, _, _)
MarkBatchFailedPending_ResetsCollected(b, ids, max_notes) ==
    IF ids = <<>> THEN b
    ELSE MarkBatchFailedPending_ResetsCollected(
             update_scrape_progress(b, Head(ids), 0, max_notes, "partial",
                                    "MediaCrawler batch failed"),
             Tail(ids), max_notes)

\* "Mark all as partial (not failed, so they can be resumed)".
RECURSIVE MarkBatchFailedPending(_, _, _)
MarkBatchFailedPending(b, ids, max_notes) ==
    IF ids = <<>> THEN b
    ELSE LET progress == get_scrape_progress(b, Head(ids))
         IN MarkBatchFailedPending(
                update_scrape_progress(b, Head(ids), progress.notes_collected,
                                       max_notes, "partial",
                                       "MediaCrawler batch failed"),
                Tail(ids), max_notes)

\* "No data files found after scraping": "Mark all as failed".
RECURSIVE MarkNoFilePending(_, _)
MarkNoFilePending(b, ids) ==
    IF ids = <<>> THEN b
    ELSE MarkNoFilePending(update_status(b, Head(ids), "error"), Tail(ids))

\* scrape_pending_bloggers after _run_mediacrawler_with_exclude_filter returns.
AfterCrawlPending(f) ==
    /\ pc = "after_crawl"
    /\ fn = "pending"
    /\ IF ~crawl.all_success
       THEN /\ bloggers' = MarkBatchFailedPending(bloggers, scope, args.max_notes)
            /\ stats' = [stats EXCEPT !.failed = @ + Len(scope)]
            /\ pc' = "returned"
            /\ UNCHANGED <<latest_file, idx>>
       ELSE IF creator_files # <<>> \/ search_files # <<>>
       THEN /\ latest_file' = IF creator_files # <<>>
                              THEN load_notes_from_json(creator_files, f)
                              ELSE load_notes_from_json(search_files, f)
            /\ idx' = 1
            /\ pc' = "reconcile"
            /\ UNCHANGED <<bloggers, stats>>
       ELSE /\ bloggers' = MarkNoFilePending(bloggers, scope)
            /\ stats' = [stats EXCEPT !.failed = @ + Len(scope)]
            /\ pc' = "returned"
            /\ UNCHANGED <<latest_file, idx>>
    /\ UNCHANGED <<notes, derived, creator_files, search_files, fn, args, scope, crawl,
                   pre, trace, ncalls, nops, exec>>

\* ------------------------------------ scrape_pending_bloggers: reconciliation
Outcome(collected, target, scrape_status, reason) ==
    [notes_collected |-> collected, notes_target |-> target,
     scrape_status |-> scrape_status, failure_reason |-> reason]

\* "Already completed": the stored count has reached max_notes.
SkipPendingExisting(c, max_notes) == Outcome(c, max_notes, "completed", NULL)

SkipPendingCrawled(c, max_notes) == Outcome(c, max_notes, "completed", NULL)

\* "user_id not in notes_by_user".
NoNotesPendingExisting(c, max_notes) ==
    Outcome(c, max_notes, "partial", "No notes in JSON")

\* A zero-output branch that gives the blogger up as failed.
NoNotesPendingCrawled_Failed(c, max_notes) ==
    Outcome(c, max_notes, "failed", "No notes in JSON")

\* "user_id not in notes_by_user", crawler path.
NoNotesPendingCrawled(c, max_notes) ==
    Outcome(c, max_notes, "partial", "No notes in JSON")

\* The three-way classification after the recount: c = notes_collected read
\* before the merge, k = len(user_notes), t = total_collected.
ClassifyPendingExisting(c, k, t, max_notes) ==
    IF t >= max_notes THEN Outcome(t, max_notes, "completed", NULL)
    ELSE IF k < max_notes - c THEN Outcome(t, t, "completed", NULL)
    ELSE Outcome(t, max_notes, "partial", NULL)

\* A classification without the partial branch: below max_notes it always
\* retargets.
ClassifyPendingCrawled_AlwaysRetargets(c, k, t, max_notes) ==
    IF t >= max_notes THEN Outcome(t, max_notes, "completed", NULL)
    ELSE Outcome(t, t, "completed", NULL)

\* The same classification on the crawler path.
ClassifyPendingCrawled(c, k, t, max_notes) ==
    IF t >= max_notes THEN Outcome(t, max_notes, "completed", NULL)
    ELSE IF k < max_notes - c THEN Outcome(t, t, "completed", NULL)
    ELSE Outcome(t, max_notes, "partial", NULL)

WriteProgress(b, u, r) ==
    update_scrape_progress(b, u, r.notes_collected, r.notes_target,
                           r.scrape_status, r.failure_reason)

\* After the recount: update_scrape_progress and, when completed,
\* update_status(user_id, "scraped").
WriteOutcome(b, u, r) ==
    IF r.scrape_status = "completed"
    THEN update_status(WriteProgress(b, u, r), u, "scraped")
    ELSE WriteProgress(b, u, r)

Scraped(r) == IF r.scrape_status = "completed" THEN 1 ELSE 0

\* History of a pass over a blogger: the branch taken and, for a pass that
\* merged and recounted, the c, k, t it classified.
TracePass(tr, u, branch) == [tr EXCEPT ![u] = [@ EXCEPT !.branch = branch]]

TraceCount(tr, u, c, k, t) ==
    [tr EXCEPT ![u] = [@ EXCEPT !.branch = "counted", !.counted = TRUE,
                                !.c = c, !.k = k, !.t = t]]

\* One iteration of "for idx, blogger in enumerate(qualified_bloggers, 1)",
\* on the use_existing_data path (existing) or on the crawler path.
PendingIteration(existing) ==
    LET user_id == scope[idx]
        max_notes == args.max_notes
        progress == get_scrape_progress(bloggers, user_id)
        notes_collected == progress.notes_collected
        is_resuming == progress.scrape_status = "partial"
        user_notes == NotesOfUser(latest_file, user_id)
        counted == IF is_resuming THEN [stats EXCEPT !.resumed = @ + 1] ELSE stats
        saved == SaveNotes(notes, user_notes)
        notes_added == Len(user_notes)
        total_collected == count_notes_by_user(saved, user_id)
        skipped == IF existing THEN SkipPendingExisting(notes_collected, max_notes)
                   ELSE SkipPendingCrawled(notes_collected, max_notes)
        no_notes == IF existing THEN NoNotesPendingExisting(notes_collected, max_notes)
                    ELSE NoNotesPendingCrawled(notes_collected, max_notes)
        r == IF existing
             THEN ClassifyPendingExisting(notes_collected, Len(user_notes),
                                          total_collected, max_notes)
             ELSE ClassifyPendingCrawled(notes_collected, Len(user_notes),
                                         total_collected, max_notes)
    IN /\ IF notes_collected >= max_notes
          THEN /\ bloggers' = WriteProgress(bloggers, user_id, skipped)
               /\ trace' = TracePass(trace, user_id, "skipped")
               /\ UNCHANGED <<notes, derived, stats>>
          ELSE IF user_notes = <<>>
          THEN /\ bloggers' = WriteProgress(bloggers, user_id, no_notes)
               /\ stats' = [counted EXCEPT !.failed = @ + 1]
               /\ trace' = TracePass(trace, user_id, "no_notes")
               /\ UNCHANGED <<notes, derived>>
          ELSE /\ notes' = saved
               /\ derived' = SaveDerived(derived, user_notes)
               /\ bloggers' = WriteOutcome(bloggers, user_id, r)
               /\ stats' = [counted EXCEPT !.scraped = @ + Scraped(r),
                                           !.notes_added = @ + notes_added]
               /\ trace' = TraceCount(trace, user_id, notes_collected,
                                      Len(user_notes), total_collected)
       /\ idx' = idx + 1
       /\ pc' = IF idx = Len(scope) THEN "returned" ELSE "reconcile"
       /\ UNCHANGED <<creator_files, search_files, fn, args, scope, crawl,
                      latest_file, pre, ncalls, nops, exec>>

ReconcilePendingExisting ==
    /\ pc = "reconcile"
    /\ fn = "pending"
    /\ args.use_existing_data
    /\ PendingIteration(TRUE)

ReconcilePendingCrawled ==
    /\ pc = "reconcile"
    /\ fn = "pending"
    /\ ~args.use_existing_data
    /\ PendingIteration(FALSE)

\* ---------------------------------------------------- scrape_specific_bloggers
RECURSIVE MarkInProgressSpecific(_, _, _)
MarkInProgressSpecific(b, ids, max_notes) ==
    IF ids = <<>> THEN b
    ELSE LET progress == get_scrape_progress(b, Head(ids))
         IN MarkInProgressSpecific(
                update_scrape_progress(b, Head(ids), progress.notes_collected,
                                       max_notes, "in_progress", NULL),
                Tail(ids), max_notes)

\* max over the bloggers of max(0, max_notes - notes_collected).
RECURSIVE MaxRemainingNotes(_, _, _)
MaxRemainingNotes(b, ids, max_notes) ==
    IF ids = <<>> THEN 0
    ELSE Max(Max(0, max_notes - get_scrape_progress(b, Head(ids)).notes_collected),
             MaxRemainingNotes(b, Tail(ids), max_notes))

\* The call up to the crawler invocation.  user_ids are ids of rows of the
\* bloggers table, each once (the caller selects them from
\* get_resumable_bloggers), so target_bloggers is user_ids.  The number of
\* the call is left to the caller of this definition.
SpecificBegin(user_ids, max_notes, batch_size) ==
    /\ pc \in {"idle", "returned"}
    /\ LET target_bloggers == user_ids
           max_remaining_notes == MaxRemainingNotes(bloggers, target_bloggers, max_notes)
       IN /\ fn' = "specific"
          /\ args' = [user_ids |-> user_ids, max_notes |-> max_notes,
                      batch_size |-> batch_size]
          /\ pre' = [bloggers |-> bloggers, notes |-> notes, targets |-> target_bloggers]
          /\ trace' = NoTrace
          /\ scope' = target_bloggers
          /\ stats' = [scraped |-> 0, failed |-> 0, notes_added |-> 0,
                       resumed |-> Len(user_ids)]
          /\ latest_file' = <<>>
          /\ idx' = 0
          /\ IF target_bloggers = <<>>
             THEN /\ pc' = "returned"
                  /\ crawl' = NoCrawl
                  /\ UNCHANGED bloggers
             ELSE /\ bloggers' = MarkInProgressSpecific(bloggers, target_bloggers, max_notes)
                  /\ IF max_remaining_notes = 0
                     THEN /\ pc' = "returned"
                          /\ crawl' = NoCrawl
                     ELSE /\ pc' = "crawl"
                          /\ crawl' = NewCrawl(user_ids, max_remaining_notes,
                                               BuildExcludeMap(notes, target_bloggers))
    /\ UNCHANGED <<notes, derived, creator_files, search_files, nops, exec>>

\* The call, counted among the calls of the behaviour.
scrape_specific_bloggers(user_ids, max_notes, batch_size) ==
    /\ ncalls < MaxCalls
    /\ ncalls' = ncalls + 1
    /\ SpecificBegin(user_ids, max_notes, batch_size)

RECURSIVE MarkBatchFailedSpecific(_, _, _)
MarkBatchFailedSpecific(b, ids, max_notes) ==
    IF ids = <<>> THEN b
    ELSE LET progress == get_scrape_progress(b, Head(ids))
         IN MarkBatchFailedSpecific(
                update_scrape_progress(b, Head(ids), progress.notes_collected,
                                       max_notes, "partial",
                                       "MediaCrawler batch failed"),
                Tail(ids), max_notes)

RECURSIVE MarkNoFileSpecific(_, _, _)
MarkNoFileSpecific(b, ids, max_notes) ==
    IF ids = <<>> THEN b
    ELSE LET progress == get_scrape_progress(b, Head(ids))
         IN MarkNoFileSpecific(
                update_scrape_progress(b, Head(ids), progress.notes_collected,
                                       max_notes, "partial", "No result file"),
                Tail(ids), max_notes)

\* scrape_specific_bloggers after _run_mediacrawler_with_exclude_filter returns.
AfterCrawlSpecific(f) ==
    /\ pc = "after_crawl"
    /\ fn = "specific"
    /\ IF ~crawl.all_success
       THEN /\ bloggers' = MarkBatchFailedSpecific(bloggers, scope, args.max_notes)
            /\ stats' = [stats EXCEPT !.failed = @ + Len(scope)]
            /\ pc' = "returned"
            /\ UNCHANGED <<latest_file, idx>>
       ELSE IF creator_files # <<>> \/ search_files # <<>>
       THEN /\ latest_file' = IF creator_files # <<>>
                              THEN load_notes_from_json(creator_files, f)
                              ELSE load_notes_from_json(search_files, f)
            /\ idx' = 1
            /\ pc' = "reconcile"
            /\ UNCHANGED <<bloggers, stats>>
       ELSE /\ bloggers' = MarkNoFileSpecific(bloggers, scope, args.max_notes)
            /\ stats' = [stats EXCEPT !.failed = @ + Len(scope)]
            /\ pc' = "returned"
            /\ UNCHANGED <<latest_file, idx>>
    /\ UNCHANGED <<notes, derived, creator_files, search_files, fn, args, scope, crawl,
                   pre, trace, ncalls, nops, exec>>

NoNotesSpecific(c, max_notes) ==
    Outcome(c, max_notes, "partial", "No notes in JSON")

\* A classification that completes only above max_notes (t > max_notes).
ClassifySpecific_StrictTarget(k, t, max_notes) ==
    IF t > max_notes THEN Outcome(t, max_notes, "completed", NULL)
    ELSE IF k = 0 THEN Outcome(t, t, "completed", NULL)
    ELSE Outcome(t, max_notes, "partial", NULL)

\* The classification after the recount: k = len(user_notes), t = total_collected.
ClassifySpecific(k, t, max_notes) ==
    IF t >= max_notes THEN Outcome(t, max_notes, "completed", NULL)
    ELSE IF k = 0 THEN Outcome(t, t, "completed", NULL)
    ELSE Outcome(t, max_notes, "partial", NULL)

\* One iteration of "for idx, blogger in enumerate(target_bloggers, 1)".
ReconcileSpecific ==
    /\ pc = "reconcile"
    /\ fn = "specific"
    /\ LET user_id == scope[idx]
           max_notes == args.max_notes
           progress == get_scrape_progress(bloggers, user_id)
           notes_collected == progress.notes_collected
           user_notes == NotesOfUser(latest_file, user_id)
           saved == SaveNotes(notes, user_notes)
           notes_added == Len(user_notes)
           total_collected == count_notes_by_user(saved, user_id)
           r == ClassifySpecific(Len(user_notes), total_collected, max_notes)
       IN IF user_notes = <<>>
          THEN /\ bloggers' = WriteProgress(bloggers, user_id,
                                            NoNotesSpecific(notes_collected, max_notes))
               /\ stats' = [stats EXCEPT !.failed = @ + 1]
               /\ trace' = TracePass(trace, user_id, "no_notes")
               /\ UNCHANGED <<notes, derived>>
          ELSE /\ notes' = saved
               /\ derived' = SaveDerived(derived, user_notes)
               /\ bloggers' = WriteOutcome(bloggers, user_id, r)
               /\ stats' = [stats EXCEPT !.scraped = @ + Scraped(r),
                                         !.notes_added = @ + notes_added]
               /\ trace' = TraceCount(trace, user_id, notes_collected,
                                      Len(user_notes), total_collected)
    /\ idx' = idx + 1
    /\ pc' = IF idx = Len(scope) THEN "returned" ELSE "reconcile"
    /\ UNCHANGED <<creator_files, search_files, fn, args, scope, crawl,
                   latest_file, pre, ncalls, nops, exec>>

\* ------------------------------------------------- outside the pipeline call
\* Between calls the call's locals are gone.
Forget ==
    /\ pc' = "idle"
    /\ fn' = "none"
    /\ args' = NoArgs
    /\ scope' = <<>>
    /\ crawl' = NoCrawl
    /\ latest_file' = <<>>
    /\ idx' = 0
    /\ stats' = ZeroStats
    /\ trace' = NoTrace

\* BloggerDB.reset_blogger_status: the operator's "reset" button.
reset_blogger_status(u) ==
    /\ pc \in {"idle", "returned"}
    /\ nops < MaxOps
    /\ ncalls < MaxCalls
    /\ notes' = [x \in NoteIds |-> IF notes[x] = u THEN NoUser ELSE notes[x]]
    /\ derived' = [x \in NoteIds |-> IF notes[x] = u THEN NoDerived ELSE derived[x]]
    /\ bloggers' = [bloggers EXCEPT ![u] = [@ EXCEPT !.status = "pending"]]
    /\ <<bloggers', notes'>> # <<bloggers, notes>>
    /\ pre' = [bloggers |-> bloggers', notes |-> notes', targets |-> <<>>]
    /\ nops' = nops + 1
    /\ Forget
    /\ UNCHANGED <<creator_files, search_files, ncalls, exec>>

\* BloggerDB.reset_scrape_progress.
reset_scrape_progress(u) ==
    /\ pc \in {"idle", "returned"}
    /\ nops < MaxOps
    /\ ncalls < MaxCalls
    /\ bloggers' = [bloggers EXCEPT ![u] = [@ EXCEPT !.notes_collected = 0,
                                                     !.scrape_status = "not_started",
                                                     !.failure_reason = NULL]]
    /\ bloggers' # bloggers
    /\ pre' = [bloggers |-> bloggers', notes |-> notes, targets |-> <<>>]
    /\ nops' = nops + 1
    /\ Forget
    /\ UNCHANGED <<notes, derived, creator_files, search_files, ncalls, exec>>

\* discovery.run_mediacrawler_sync: a keyword search leaves a search_contents file.
run_mediacrawler_sync ==
    /\ pc \in {"idle", "returned"}
    /\ nops < MaxOps
    /\ ncalls < MaxCalls
    /\ search_files = <<>>
    /\ search_files' = WrittenBy(0, 0)
    /\ pre' = [bloggers |-> bloggers, notes |-> notes, targets |-> <<>>]
    /\ nops' = nops + 1
    /\ Forget
    /\ UNCHANGED <<bloggers, notes, derived, creator_files, ncalls, exec>>

\* ------------------------------------------------------------ specification
Limits == 0..NumUsers
MaxNotesArgs == 1..MaxNotes
BatchSizes == 1..NumUsers
FansThreshold == 1000
FansCounts == {0, 500, 2000}

\* The content read is drawn only where a file is read.
Reads(loads) == IF loads THEN Files ELSE {<<>>}

PendingCall(fans) ==
    \E limit \in Limits, use_existing_data \in BOOLEAN, max_notes \in MaxNotesArgs,
       min_fans \in fans, resume_partial \in BOOLEAN, batch_size \in BatchSizes,
       by_time \in Orders(ResumableSet(bloggers)) :
       \E f \in Reads(use_existing_data /\ search_files # <<>>) :
       scrape_pending_bloggers(limit, use_existing_data, max_notes, min_fans,
                               resume_partial, batch_size, by_time, f)

SpecificCall ==
    \E user_ids \in DistinctSeqs(Users), max_notes \in MaxNotesArgs,
       batch_size \in BatchSizes :
       scrape_specific_bloggers(user_ids, max_notes, batch_size)

Crawler == \E ok \in BOOLEAN, wrote \in BOOLEAN : CrawlChunk(ok, wrote)

LocatePending ==
    \E f \in Reads(crawl.all_success /\ (creator_files # <<>> \/ search_files # <<>>)) :
       AfterCrawlPending(f)

LocateSpecific ==
    \E f \in Reads(crawl.all_success /\ (creator_files # <<>> \/ search_files # <<>>)) :
       AfterCrawlSpecific(f)

Operator ==
    \/ \E u \in Users : reset_blogger_status(u)
    \/ \E u \in Users : reset_scrape_progress(u)
    \/ run_mediacrawler_sync

\* Collection with the fans filter disabled (min_fans = 0, the default).
Next ==
    \/ PendingCall({0})
    \/ SpecificCall
    \/ Crawler
    \/ LocatePending
    \/ ReconcilePendingExisting
    \/ ReconcilePendingCrawled
    \/ LocateSpecific
    \/ ReconcileSpecific
    \/ Operator

Spec == Init /\ [][Next]_vars

\* Collection by scrape_pending_bloggers through the crawler with the fans
\* filter off or on (min_fans = 0 or the threshold of the app), and the
\* operator's reset.  No keyword search has left a search_contents file.
Filter ==
    /\ pc = "fans"
    /\ \E fans_dict \in [Range(scope) -> FansCounts], wrote \in BOOLEAN :
          \E f \in Reads(args.use_existing_data /\ search_files # <<>>) :
             FansFilter(fans_dict, wrote, f)

Reset == \E u \in Users : reset_blogger_status(u)

NextFans ==
    \/ PendingCall({0, FansThreshold})
    \/ Filter
    \/ Crawler
    \/ LocatePending
    \/ ReconcilePendingCrawled
    \/ Reset

SpecFans == Init /\ [][NextFans]_vars

\* ======================================================= the crawler executor
\* run_mediacrawler_for_creators_batch, process by process.  The collection
\* calls reach it through _run_mediacrawler_with_exclude_filter, the fans
\* lookup through fetch_creators_fans_batch.  CrawlChunk above is one whole
\* invocation of this executor; here the invocation is taken apart into the
\* launch of the process, what the process does, and the wait for it.
MaxIds == 7          \* most user ids handed to one batch run
MaxBatchSize == 3    \* largest batch_size a caller passes
MaxConfigIds == 2    \* longest list of a run that watches the config files

DefaultBatchSize == 5    \* batch_size: int = 5

ExecIds(n) == [i \in 1..n |-> i]
ExecLists == {ExecIds(n) : n \in 1..MaxIds}
ExecBatchSizes == 0..MaxBatchSize
ExecMaxNotes == {1, 10, 100, 200}

\* "note_ids[:1000]": the most note ids the exclusion map lists per blogger.
ExcludeCap == 1000

\* How many notes the store holds for the first blogger of a collection run:
\* none, a few, more than the cap.
StoredCounts == {0, 2, ExcludeCap + 1}
Collectors == {"pending", "specific"}

\* A timeout that leaves the 50% buffer out for a single creator.
timeout_seconds_NoBufferForOne(n, max_notes) ==
    LET estimated_time_per_creator == max_notes * 4 + 60
        total_estimated_time == n * estimated_time_per_creator
        buffered == IF n = 1 THEN total_estimated_time
                    ELSE (total_estimated_time * 3) \div 2
    IN Max(300, Min(buffered, 7200))

\* The timeout of one invocation for n creators.  int(x * 1.5) of a
\* non-negative integer x is the floor of 3x/2 (the float product is exact).
timeout_seconds(n, max_notes) ==
    LET estimated_time_per_creator == max_notes * 4 + 60
        total_estimated_time == n * estimated_time_per_creator
        buffered == (total_estimated_time * 3) \div 2
    IN Max(300, Min(buffered, 7200))

\* test_timeout_calculation.calculate_timeout.
calculate_timeout(num_creators, max_notes) ==
    LET estimated_time_per_creator == max_notes * 4 + 60
        total_estimated_time == num_creators * estimated_time_per_creator
        timeout == (total_estimated_time * 3) \div 2
    IN Max(300, Min(timeout, 7200))

\* NoteDB.get_note_ids_by_user for a blogger with n stored notes: the query
\* has no ORDER BY and SQLite walks idx_notes_user_id, so the ids come in
\* the order of their rows.  Note ids are numbered in the order they were
\* stored: 1 is the oldest, n the most recent.
NoteIdList(n) == [i \in 1..n |-> i]

\* "note_ids[:1000] if len(note_ids) > 1000 else note_ids", on the length of
\* the list: the first 1000 ids of NoteIdList(n), or all of them.
Truncated(n) == IF n > ExcludeCap THEN ExcludeCap ELSE n

\* A new batch run.  The config files are what the last run left.
NewExec(caller, user_ids, max_notes, batch_size, stored) ==
    [NoExec EXCEPT !.caller = caller, !.user_ids = user_ids,
                   !.max_notes = max_notes, !.batch_size = batch_size,
                   !.stored = stored,
                   !.base = exec.base, !.xhs = exec.xhs,
                   !.base_backup = exec.base_backup,
                   !.xhs_backup = exec.xhs_backup,
                   !.before = [base |-> exec.base, xhs |-> exec.xhs]]

\* The finally block of _run_mediacrawler_with_exclude_filter:
\* "if xhs_backup.exists()": restore xhs_config.py and delete the backup.
OuterFinally(e) ==
    IF e.caller # "fans" /\ e.xhs_backup # <<>>
    THEN [e EXCEPT !.xhs = e.xhs_backup[1], !.xhs_backup = <<>>]
    ELSE e

\* An exception leaves the batch run.  fetch_creators_fans_batch catches it
\* ("except Exception": every id gets 0 fans); the collection calls have no
\* handler around _run_mediacrawler_with_exclude_filter, so after its finally
\* block it leaves scrape_pending_bloggers / scrape_specific_bloggers as well.
Raise(e) ==
    IF e.caller = "fans"
    THEN [e EXCEPT !.step = "done", !.result = "caught"]
    ELSE [OuterFinally(e) EXCEPT !.step = "raised", !.result = "raised"]

\* run_mediacrawler_for_creators_batch up to the first invocation:
\* range(0, len(user_ids), 0) raises ValueError.
BatchRun(e) ==
    IF e.user_ids = <<>>
    THEN [OuterFinally(e) EXCEPT !.step = "done", !.result = "False"]
    ELSE IF Len(e.user_ids) > e.batch_size /\ e.batch_size = 0 THEN Raise(e)
    ELSE [e EXCEPT !.chunks = Chunks(e.user_ids, e.batch_size),
                   !.chunk = 1, !.step = "launch"]

\* The finally block of _run_mediacrawler_for_creators_single_batch: both
\* config files are written back from their backups, the backups deleted.
RestoreSingle(e) ==
    [e EXCEPT !.base = e.base_backup[1], !.base_backup = <<>>,
              !.xhs = e.xhs_backup[1], !.xhs_backup = <<>>]

\* The end of one invocation: "continuing with next batch", or the return of
\* all_success after the last one.
EndChunk(e, ok) ==
    LET e1 == [RestoreSingle(e) EXCEPT !.all_success = @ /\ ok, !.proc = "none"]
    IN IF e.chunk = Len(e.chunks)
       THEN [OuterFinally(e1) EXCEPT
                 !.step = "done",
                 !.result = IF e1.all_success THEN "True" ELSE "False"]
       ELSE [e1 EXCEPT !.chunk = @ + 1, !.step = "launch"]

\* A kill that does not end the process.
Kill_LeavesRunning(e) == e

\* process.kill().
Kill(e) ==
    IF e.proc \in {"running", "detached"}
    THEN [e EXCEPT !.proc = "killed", !.active = @ - 1]
    ELSE e

AtRest == exec.step \in {"idle", "done", "raised"}

\* The fans lookup: run_mediacrawler_for_creators_batch(user_ids, max_notes=1),
\* batch_size left at its default.
fetch_creators_fans_batch(user_ids) ==
    /\ AtRest
    /\ exec' = BatchRun(NewExec("fans", user_ids, 1, DefaultBatchSize, 0))
    /\ UNCHANGED pipeline

\* The collection run for user_ids, the first of which has `stored` notes in
\* the store (exclude_note_ids_map has an entry for it when stored > 0).
\* The crawler's xhs_config.py is opened before the try block: when it
\* cannot be read (config_ok = FALSE) the exception leaves the function.
\* Else the file is backed up and written with the exclusion map.
run_mediacrawler_with_exclude_filter(caller, user_ids, max_notes, batch_size, stored, config_ok) ==
    /\ AtRest
    /\ LET e == NewExec(caller, user_ids, max_notes, batch_size, stored)
           w == [e EXCEPT !.xhs_backup = <<e.xhs>>,
                          !.xhs = [@ EXCEPT !.exclude = Truncated(stored)]]
       IN exec' = IF config_ok THEN BatchRun(w) ELSE Raise(e)
    /\ UNCHANGED pipeline

\* _run_mediacrawler_for_creators_single_batch up to subprocess.Popen: the
\* two config files are read before the try block (config_ok), the timeout
\* is computed, the process is started (popen_ok; a Popen that raises is
\* caught by "except Exception": return False).  Both files are copied to
\* base_config.py.pipeline_backup and xhs_config.py.pipeline_backup (the
\* file the collection run wrote its own backup to), then rewritten for the
\* batch; the process reads them when it starts (seen).
LaunchCrawler(config_ok, popen_ok) ==
    /\ exec.step = "launch"
    /\ LET batch == exec.chunks[exec.chunk]
           e == [exec EXCEPT !.invoked = Append(@, batch)]
           t == [e EXCEPT !.timeout = timeout_seconds(Len(batch), e.max_notes),
                          !.base_backup = <<e.base>>,
                          !.xhs_backup = <<e.xhs>>,
                          !.base = [crawler_type |-> "creator",
                                    max_notes |-> e.max_notes,
                                    comments |-> FALSE],
                          !.xhs = [@ EXCEPT !.creators = batch]]
       IN exec' = IF ~config_ok THEN Raise(e)
                  ELSE IF ~popen_ok THEN EndChunk(t, FALSE)
                  ELSE [t EXCEPT !.proc = "running", !.active = @ + 1,
                                 !.step = "stream",
                                 !.seen = [max_notes |-> t.base.max_notes,
                                           exclude |-> t.xhs.exclude,
                                           creators |-> t.xhs.creators]]
    /\ UNCHANGED pipeline

\* The crawler process closes its output and keeps running.
ProcessClosesOutput ==
    /\ exec.proc = "running"
    /\ exec' = [exec EXCEPT !.proc = "detached"]
    /\ UNCHANGED pipeline

\* The crawler process exits with a return code.
ProcessExits(code) ==
    /\ exec.proc \in {"running", "detached"}
    /\ exec' = [exec EXCEPT !.proc = "exited", !.return_code = code,
                            !.active = @ - 1]
    /\ UNCHANGED pipeline

\* "for line in process.stdout" raises: process.kill(), return_code = -1.
StreamError ==
    /\ exec.step = "stream"
    /\ exec.proc = "running"
    /\ exec' = EndChunk(Kill(exec), FALSE)
    /\ UNCHANGED pipeline

\* The output has ended and process.wait returns the code of the exited
\* process.
WaitReturns ==
    /\ exec.step = "stream"
    /\ exec.proc = "exited"
    /\ exec' = EndChunk(exec, exec.return_code = 0)
    /\ UNCHANGED pipeline

\* The output has ended, the process has not exited within timeout_seconds:
\* TimeoutExpired, process.kill(), return_code = -1.
WaitTimesOut ==
    /\ exec.step = "stream"
    /\ exec.proc = "detached"
    /\ exec' = EndChunk(Kill(exec), FALSE)
    /\ UNCHANGED pipeline

Lookup == \E user_ids \in ExecLists : fetch_creators_fans_batch(user_ids)

\* Collection runs for bloggers without stored notes (empty exclusion map).
Collect ==
    \E caller \in Collectors, user_ids \in ExecLists, max_notes \in ExecMaxNotes,
       batch_size \in ExecBatchSizes, config_ok \in BOOLEAN :
       run_mediacrawler_with_exclude_filter(caller, user_ids, max_notes,
                                            batch_size, 0, config_ok)

Launch == \E config_ok \in BOOLEAN, popen_ok \in BOOLEAN : LaunchCrawler(config_ok, popen_ok)

Exits == \E code \in {0, 1} : ProcessExits(code)

NextExec ==
    \/ Lookup
    \/ Collect
    \/ Launch
    \/ ProcessClosesOutput
    \/ Exits
    \/ StreamError
    \/ WaitReturns
    \/ WaitTimesOut

SpecExec == Init /\ [][NextExec]_vars

\* The executor under the scheduling the code has: a launch that is due
\* happens, and a wait(timeout) that has been reached returns or times out.
\* Nothing obliges the crawler process to close its output or to exit.
SpecExecLive ==
    /\ Init
    /\ [][NextExec]_vars
    /\ WF_vars(Launch)
    /\ WF_vars(WaitReturns)
    /\ WF_vars(WaitTimesOut)

\* ------------------------------------------------------ the config files
\* The executor with the crawler's config files in view: short lists, and a
\* first blogger with no stored notes, a few, or more than the cap.
ConfigLists == {ExecIds(n) : n \in 1..MaxConfigIds}
ConfigBatchSizes == 1..MaxConfigIds
ConfigMaxNotes == {10, 100}

LookupConfig == \E user_ids \in ConfigLists : fetch_creators_fans_batch(user_ids)

CollectConfig ==
    \E caller \in Collectors, user_ids \in ConfigLists, max_notes \in ConfigMaxNotes,
       batch_size \in ConfigBatchSizes, stored \in StoredCounts,
       config_ok \in BOOLEAN :
       run_mediacrawler_with_exclude_filter(caller, user_ids, max_notes,
                                            batch_size, stored, config_ok)

NextConfig ==
    \/ LookupConfig
    \/ CollectConfig
    \/ Launch
    \/ ProcessClosesOutput
    \/ Exits
    \/ StreamError
    \/ WaitReturns
    \/ WaitTimesOut

SpecConfig == Init /\ [][NextConfig]_vars

\* ===================================================================== claims
Returned == pc = "returned"

\* The call ran the crawler (scrape_specific_bloggers, or
\* scrape_pending_bloggers with use_existing_data=False).
CrawlerPath ==
    \/ fn = "specific"
    \/ fn = "pending" /\ ~args.use_existing_data

\* The call has returned from the end of its reconciliation loop.
ReconciledAll == pc = "returned" /\ idx = Len(scope) + 1

\* The number of times u is in the call's list of bloggers.
Occurrences(u) == Cardinality({i \in DOMAIN scope : scope[i] = u})

OutputOf(u) == NotesOfUser(latest_file, u)

NoteIdsOf(recs) == {recs[i].note_id : i \in DOMAIN recs}

\* The call has written u's progress record (update_scrape_progress).
Written(u) ==
    \E i \in DOMAIN scope :
        /\ scope[i] = u
        /\ pc \in {"crawl", "after_crawl", "reconcile", "returned"}
        /\ \/ fn = "specific"
           \/ fn = "pending" /\ ~args.use_existing_data
           \/ fn = "pending" /\ args.use_existing_data /\ i < idx

\* The total the reconciler recounted for u, or the store's count when the
\* call did not recount.
Recounted(u) ==
    IF trace[u].counted THEN trace[u].t ELSE count_notes_by_user(notes, u)

\* The latest creator_contents file was written by the call's crawler run.
FreshOutput == creator_files # <<>> /\ creator_files[1].run = ncalls

\* Every note of the output file is attributed to one user, and to the user
\* it was already stored for, if it was stored before the call.
OwnersKept ==
    \A i \in DOMAIN latest_file :
        /\ pre.notes[latest_file[i].note_id] \in {NoUser, latest_file[i].user_id}
        /\ \A j \in DOMAIN latest_file :
               latest_file[j].note_id = latest_file[i].note_id =>
                   latest_file[j].user_id = latest_file[i].user_id

\* C1: after a call that ran the crawler and reconciled from an output file,
\* the stored notes_collected of every blogger in the call's scope equals the
\* number of notes stored for it (the output file attributing each note to its
\* one owner).
C1_CollectedEqualsStoredCount ==
    (ReconciledAll /\ CrawlerPath /\ FreshOutput /\ OwnersKept) =>
        \A u \in Range(scope) :
            bloggers[u].notes_collected = count_notes_by_user(notes, u)

\* C2: in scrape_pending_bloggers (here on the crawler path, reconciling the
\* file its own run wrote), a blogger, once in the call's list, with c
\* collected before the call for which the run returned k < max_notes - c
\* items (k = 0 only when c > 0) and whose recounted total t is below
\* max_notes ends completed with notes_target = notes_collected = t.
C2_FewerThanNeededCompletes ==
    (ReconciledAll /\ fn = "pending" /\ CrawlerPath /\ FreshOutput) =>
        \A u \in Range(scope) :
            LET c == pre.bloggers[u].notes_collected
                k == Len(OutputOf(u))
                t == Recounted(u)
            IN (/\ Occurrences(u) = 1
                /\ k < args.max_notes - c
                /\ (k > 0 \/ c > 0)
                /\ t < args.max_notes) =>
                   /\ bloggers[u].scrape_status = "completed"
                   /\ bloggers[u].notes_target = t
                   /\ bloggers[u].notes_collected = t

\* C3: in scrape_specific_bloggers, a partial blogger holding c notes toward
\* the target max_notes for which the crawler's run returns r new unique
\* notes, 0 < r < max_notes - c, ends completed with notes_target = c + r.
C3_ResumeRetargets ==
    (ReconciledAll /\ fn = "specific" /\ FreshOutput) =>
        \A u \in Range(scope) :
            LET c == pre.bloggers[u].notes_collected
                r == Len(OutputOf(u))
                ids == NoteIdsOf(OutputOf(u))
            IN (/\ pre.bloggers[u].scrape_status = "partial"
                /\ pre.bloggers[u].notes_target = args.max_notes
                /\ count_notes_by_user(pre.notes, u) = c
                /\ Cardinality(ids) = r
                /\ \A x \in ids : pre.notes[x] = NoUser
                /\ 0 < r
                /\ r < args.max_notes - c) =>
                   /\ bloggers[u].scrape_status = "completed"
                   /\ bloggers[u].notes_target = c + r

\* C4: a blogger whose recounted total t reached max_notes is completed, with
\* failure_reason NULL, notes_collected = t and notes_target = max_notes.
C4_TargetReachedCompletes ==
    \A u \in Users :
        (trace[u].counted /\ trace[u].t >= args.max_notes) =>
            /\ bloggers[u].scrape_status = "completed"
            /\ bloggers[u].failure_reason = NULL
            /\ bloggers[u].notes_collected = trace[u].t
            /\ bloggers[u].notes_target = args.max_notes

C4_Witness ==
    /\ Returned
    /\ \E u \in Users : trace[u].counted /\ trace[u].t > args.max_notes

\* C5: when the call returns, every blogger whose progress record it wrote and
\* whose notes_collected >= notes_target is completed.
C5_ReachedTargetIsCompleted ==
    Returned =>
        \A u \in Users :
            (Written(u) /\ bloggers[u].notes_collected >= bloggers[u].notes_target) =>
                bloggers[u].scrape_status = "completed"

\* C6 as claimed: a reconciled blogger whose pass merged k >= max_notes - c
\* items but whose recounted total is below max_notes ends partial with the
\* notes_target it had before the call, and is resumable.
C6_OverlapKeepsOldTarget ==
    Returned =>
        \A u \in Users :
            (/\ trace[u].counted
             /\ trace[u].k >= args.max_notes - trace[u].c
             /\ trace[u].t < args.max_notes) =>
                /\ bloggers[u].scrape_status = "partial"
                /\ bloggers[u].notes_target = pre.bloggers[u].notes_target
                /\ u \in ResumableSet(bloggers)

\* C6 as amended: a reconciled blogger whose pass merged k >= max_notes - c
\* items (c the notes_collected read at that pass) but whose recounted total
\* is below max_notes ends partial with notes_target = max_notes, and is
\* returned by get_resumable_bloggers.
C6_OverlapStaysPartial ==
    Returned =>
        \A u \in Users :
            (/\ trace[u].counted
             /\ trace[u].k >= args.max_notes - trace[u].c
             /\ trace[u].t < args.max_notes) =>
                /\ bloggers[u].scrape_status = "partial"
                /\ bloggers[u].notes_target = args.max_notes
                /\ u \in ResumableSet(bloggers)
                /\ u \in Range(get_resumable_bloggers(Ascending(ResumableSet(bloggers)), 0))

C6_Witness ==
    /\ Returned
    /\ \E u \in Users :
        /\ trace[u].counted
        /\ trace[u].k >= args.max_notes - trace[u].c
        /\ trace[u].t < args.max_notes
        /\ pre.bloggers[u].notes_target # args.max_notes

\* C7 as claimed: while the crawler is invoked for collection, every blogger
\* of the run is in_progress and its notes_collected and notes_target are the
\* ones it had before the call.
C7_InProgressKeepsBoth ==
    pc = "crawl" =>
        \A u \in Range(crawl.ids) :
            /\ bloggers[u].scrape_status = "in_progress"
            /\ bloggers[u].notes_collected = pre.bloggers[u].notes_collected
            /\ bloggers[u].notes_target = pre.bloggers[u].notes_target

\* C7 as amended: while the crawler is invoked for collection, every blogger
\* of the run is in_progress, its notes_collected is the one it had before the
\* call, and its notes_target is the call's max_notes.
C7_InProgressKeepsCollected ==
    pc = "crawl" =>
        \A u \in Range(crawl.ids) :
            /\ bloggers[u].scrape_status = "in_progress"
            /\ bloggers[u].notes_collected = pre.bloggers[u].notes_collected
            /\ bloggers[u].notes_target = args.max_notes

C7_Witness ==
    /\ pc = "crawl"
    /\ crawl.chunk = 2
    /\ \E u \in Range(crawl.ids) :
        /\ pre.bloggers[u].notes_collected > 0
        /\ pre.bloggers[u].scrape_status = "partial"

\* The number of bloggers in the chunks whose invocation failed.
RECURSIVE FailedSize(_, _, _)
FailedSize(chunks, outcomes, i) ==
    IF i > Len(chunks) THEN 0
    ELSE (IF outcomes[i] THEN 0 ELSE Len(chunks[i]))
         + FailedSize(chunks, outcomes, i + 1)

\* C8: when the invocation of a chunk fails, the bloggers of that chunk end
\* partial with a reason containing "failed", and stats.failed grows by the
\* size of the failed chunk(s) only.
C8_FailedChunkCountsItsBloggers ==
    (Returned /\ crawl.outcomes # <<>> /\ ~crawl.all_success) =>
        LET chunks == Chunks(crawl.ids, args.batch_size)
        IN /\ \A i \in DOMAIN chunks :
                ~crawl.outcomes[i] =>
                    \A u \in Range(chunks[i]) :
                        /\ bloggers[u].scrape_status = "partial"
                        /\ bloggers[u].failure_reason = "MediaCrawler batch failed"
           /\ stats.failed = FailedSize(chunks, crawl.outcomes, 1)
           /\ stats.scraped = 0

\* C9: when the crawler reports success and no output file exists, every
\* blogger of the run ends partial with reason "No result file" and none is
\* marked error.
C9_NoResultFileIsPartial ==
    (/\ Returned
     /\ crawl.outcomes # <<>>
     /\ crawl.all_success
     /\ creator_files = <<>>
     /\ search_files = <<>>) =>
        \A u \in Range(scope) :
            /\ bloggers[u].scrape_status = "partial"
            /\ bloggers[u].failure_reason = "No result file"
            /\ bloggers[u].status = pre.bloggers[u].status

\* C10: a blogger of the run with no item in the output file and nothing
\* collected before ends partial with reason "No notes in JSON", notes_collected
\* 0 and its status untouched, and the loop goes on to the end of the list.
C10_NoNotesIsPartial ==
    /\ \A i \in DOMAIN scope :
           (/\ pc \in {"reconcile", "returned"}
            /\ i < idx
            /\ OutputOf(scope[i]) = <<>>
            /\ pre.bloggers[scope[i]].notes_collected = 0) =>
               /\ bloggers[scope[i]].scrape_status = "partial"
               /\ bloggers[scope[i]].failure_reason = "No notes in JSON"
               /\ bloggers[scope[i]].notes_collected = 0
               /\ bloggers[scope[i]].status = pre.bloggers[scope[i]].status
    /\ (Returned /\ idx > 0) => idx = Len(scope) + 1

C10_Witness ==
    /\ Returned
    /\ Len(scope) = 2
    /\ scope[1] # scope[2]
    /\ OutputOf(scope[1]) = <<>>
    /\ pre.bloggers[scope[1]].notes_collected = 0
    /\ trace[scope[2]].counted

\* Every crawler invocation of the run failed.
AllChunksFailed ==
    /\ crawl.outcomes # <<>>
    /\ \A i \in DOMAIN crawl.outcomes : ~crawl.outcomes[i]

C13_InsertNoteIdempotent ==
    /\ \A x \in NoteIds, u \in Users :
           LET once == insert_note(notes, x, u)
               twice == insert_note(once, x, u)
           IN \A v \in Users :
                  count_notes_by_user(twice, v) = count_notes_by_user(once, v)
    /\ \A u \in Users :
           count_notes_by_user(SaveNotes(notes, OutputOf(u) \o OutputOf(u)), u)
               = count_notes_by_user(SaveNotes(notes, OutputOf(u)), u)

\* The reconciler has merged an output that holds one note id twice.
C13_Witness ==
    \E u \in Users :
        /\ trace[u].counted
        /\ trace[u].k = 2
        /\ Cardinality(NoteIdsOf(OutputOf(u))) = 1
        /\ count_notes_by_user(notes, u) = 1

\* --------------------------------------------- claims on the fans filter
\* The call ran Phase 1 over its candidates and is past it.
FilterDone ==
    /\ fn = "pending"
    /\ FansFilterEnabled(args.min_fans)
    /\ pre.targets # <<>>
    /\ pc # "fans"

\* The fans count looked up for u is below the call's min_fans.
LowFans(u) == trace[u].fans # NoFans /\ trace[u].fans < args.min_fans

\* The candidates of the call, entry by entry, that the filter rejected.
RejectedEntries == {i \in DOMAIN pre.targets : LowFans(pre.targets[i])}

\* The latest creator_contents file was left by the call's fans lookup.
LookupOutput ==
    creator_files # <<>> /\ creator_files[1] = [run |-> ncalls, chunk |-> 0]

C15_NoFilterWithoutThreshold ==
    (fn = "pending" /\ args.min_fans = 0) =>
        /\ pc # "fans"
        /\ ~LookupOutput
        /\ stats.skipped_low_fans = 0
        /\ scope = pre.targets
        /\ \A u \in Users :
               /\ trace[u].fans = NoFans
               /\ bloggers[u].current_fans = pre.bloggers[u].current_fans
        /\ (pc \in {"crawl", "after_crawl"} /\ ~args.use_existing_data) =>
               crawl.ids = pre.targets

C15_Witness ==
    /\ fn = "pending"
    /\ args.min_fans = 0
    /\ pc = "crawl"
    /\ Len(pre.targets) = 2
    /\ \E u \in Range(pre.targets) : pre.bloggers[u].current_fans = 2000

\* C17: a blogger rejected by the fans filter is not selected by a later
\* scrape_pending_bloggers call, with resume_partial True or False, whatever
\* scrape_status it had when it was rejected: after the rejecting call it is
\* neither pending nor resumable.
C17_RejectedNotSelectable ==
    \A u \in Users :
        (fn = "pending" /\ pc = "returned" /\ trace[u].branch = "low_fans") =>
            /\ \A limit \in Limits :
                   u \notin Range(get_pending_bloggers(bloggers, limit))
            /\ u \notin ResumableSet(bloggers)

\* ------------------------------------------------- claims on the executor
\* The batch run has gone through its chunks and returned all_success.
BatchReturned == exec.step = "done" /\ exec.result \in {"True", "False"}

\* C11: scrape_pending_bloggers and scrape_specific_bloggers never raise:
\* whatever fails around the crawler, no exception leaves the call.
C11_NeverRaises == exec.caller \in Collectors => exec.result # "raised"

\* C16: the fans lookup is one crawler invocation for the whole candidate
\* list, for every number of candidates.
C16_OneLookupInvocation ==
    (exec.caller = "fans" /\ BatchReturned) => exec.invoked = <<exec.user_ids>>

CeilDiv(n, b) == CHOOSE k \in 0..n : k * b >= n /\ (k - 1) * b < n

RECURSIVE Concat(_)
Concat(ss) == IF ss = <<>> THEN <<>> ELSE Head(ss) \o Concat(Tail(ss))

C20_OneCrawlerAtATime ==
    /\ exec.active <= 1
    /\ exec.step = "launch" => exec.active = 0
    /\ \A i \in DOMAIN exec.invoked : exec.invoked[i] = exec.chunks[i]
    /\ exec.step = "launch" => Len(exec.invoked) = exec.chunk - 1
    /\ exec.step = "stream" => Len(exec.invoked) = exec.chunk
    /\ (BatchReturned /\ exec.user_ids # <<>>) => exec.invoked = exec.chunks

C20_Witness ==
    /\ BatchReturned
    /\ Len(exec.invoked) = 3
    /\ exec.proc = "none"
    /\ ~exec.all_success

\* C21: an invocation whose crawler process keeps running with its output
\* open does not wait without bound: once the executor is reading the
\* process, the invocation ends (the process is killed at the timeout and the
\* invocation returns failure).
C21_InvocationEnds == (exec.step = "stream") ~> (exec.step # "stream")

\* ------------------------------------------- claims C22..C30
\* A collection call is between its crawler invocation and its return.
Collecting == CrawlerPath /\ pc \in {"crawl", "locate", "reconcile"}

\* C22: the exclusion list handed to the crawler for a blogger of the run is
\* the set of note ids stored for that blogger when the run started; a
\* blogger with no stored notes has no entry in the map.
C22_ExcludeMapIsStored ==
    Collecting =>
        /\ DOMAIN crawl.exclude \subseteq Range(crawl.ids)
        /\ \A u \in Range(crawl.ids) :
              IF get_note_ids_by_user(pre.notes, u) = {}
              THEN u \notin DOMAIN crawl.exclude
              ELSE /\ u \in DOMAIN crawl.exclude
                   /\ crawl.exclude[u] = get_note_ids_by_user(pre.notes, u)

\* A run of two bloggers, one with stored notes and one without.
C22_Witness ==
    /\ Collecting
    /\ \E u, v \in Range(crawl.ids) :
          /\ u \in DOMAIN crawl.exclude
          /\ crawl.exclude[u] # {}
          /\ v \notin DOMAIN crawl.exclude

\* ---------------------------------------------- claims on the config files
\* A crawler process of a collection run is being read.
CollectorStreaming == exec.caller \in Collectors /\ exec.step = "stream"

\* The note ids of the first blogger that the running crawler excludes: the
\* listed prefix of get_note_ids_by_user's result.
ExcludedIds == {NoteIdList(exec.stored)[i] : i \in 1..exec.seen.exclude}

\* The k most recently stored of n note ids.
MostRecent(n, k) == (n - k + 1)..n

\* C23: when a blogger has more than 1000 stored notes, the 1000 ids kept in
\* the exclusion list are the most recently stored ones.
C23_KeepsMostRecent ==
    (CollectorStreaming /\ exec.stored > ExcludeCap) =>
        ExcludedIds = MostRecent(exec.stored, ExcludeCap)

\* C24: every crawler invocation of the fans lookup runs with a budget of
\* one note per blogger and with no exclusion map in effect, also when an
\* earlier collection run had a map.
C24_LookupSeesCleanConfig ==
    (exec.caller = "fans" /\ exec.step = "stream") =>
        /\ exec.seen.max_notes = 1
        /\ exec.seen.exclude = 0

\* C25: when _run_mediacrawler_with_exclude_filter has returned, both config
\* files have the content they had before the call and no backup file is
\* left.
C25_ConfigRestored ==
    (exec.caller \in Collectors /\ BatchReturned) =>
        /\ exec.base = exec.before.base
        /\ exec.xhs = exec.before.xhs
        /\ exec.base_backup = <<>>
        /\ exec.xhs_backup = <<>>

\* ------------------------------------------- claims on the progress fields
\* C26: a blogger has a failure_reason only while its scrape_status is
\* 'partial' or 'failed'; a move to 'in_progress', 'completed' or
\* 'not_started' clears it.
C26_ReasonOnlyWhenFailed ==
    \A u \in Users :
        bloggers[u].failure_reason # NULL =>
            bloggers[u].scrape_status \in {"partial", "failed"}

\* A blogger that had a failure_reason when the call started and has been
\* moved to 'in_progress' or 'completed' by it.
C26_Witness ==
    \E u \in Range(scope) :
        /\ pc # "idle"
        /\ pre.bloggers[u].failure_reason # NULL
        /\ bloggers[u].scrape_status \in {"in_progress", "completed"}
        /\ bloggers[u].failure_reason = NULL

C28_OwnerImmutable ==
    [][nops' = nops =>
          \A x \in NoteIds : notes[x] # NoUser => notes'[x] = notes[x]]_vars

\* C29: scrape_pending_bloggers processes at most `limit` bloggers per call:
\* the target list never has more than `limit` entries.
C29_AtMostLimitTargets ==
    (fn = "pending" /\ pc # "idle") => Len(pre.targets) <= args.limit

\* C30: when scrape_pending_bloggers or scrape_specific_bloggers has
\* returned, no blogger of the call's scope has scrape_status 'in_progress'.
C30_NoneLeftInProgress ==
    Returned =>
        \A u \in Range(scope) : bloggers[u].scrape_status # "in_progress"

\* ------------------------------------------- claims C31..C39
\* C31: the target list built by scrape_pending_bloggers holds each blogger
\* at most once.
C31_TargetsDistinct ==
    (fn = "pending" /\ pc # "idle") =>
        \A i, j \in DOMAIN pre.targets :
            pre.targets[i] = pre.targets[j] => i = j

\* C32: a blogger whose scrape_status the call has set to 'completed' has
\* the status 'scraped' when the call returns.
C32_CompletedIsScraped ==
    ReconciledAll =>
        \A u \in Range(scope) :
            bloggers[u].scrape_status = "completed" => bloggers[u].status = "scraped"

\* The operator had cleared u with reset_blogger_status when the call began:
\* status 'pending', no stored notes, and notes_collected left over.
ClearedBefore(u) ==
    /\ pre.bloggers[u].status = "pending"
    /\ count_notes_by_user(pre.notes, u) = 0
    /\ pre.bloggers[u].notes_collected > 0

\* C33: a scrape_pending_bloggers run over a blogger the operator had
\* cleared, whose crawler output holds notes for it, merges those notes and
\* recounts the blogger's progress from the store.
C33_ClearedBloggerRecollected ==
    \A u \in Range(scope) :
        (/\ fn = "pending" /\ CrawlerPath /\ ReconciledAll
         /\ FreshOutput /\ OwnersKept
         /\ ClearedBefore(u)
         /\ OutputOf(u) # <<>>) =>
            /\ NoteIdsOf(OutputOf(u)) \subseteq get_note_ids_by_user(notes, u)
            /\ bloggers[u].notes_collected = count_notes_by_user(notes, u)

\* The bloggers of chunk number i of the call's crawler run.
ChunkOf(i) == Range(Chunks(crawl.ids, args.batch_size)[i])

\* C34: when the call returns from a run of several chunks, the bloggers of
\* a chunk whose crawler invocation succeeded are not treated as failed:
\* none of them carries the batch failure.
C34_SuccessfulChunkReconciled ==
    (Returned /\ CrawlerPath) =>
        \A i \in DOMAIN crawl.outcomes :
            crawl.outcomes[i] =>
                \A u \in ChunkOf(i) :
                    bloggers[u].failure_reason # "MediaCrawler batch failed"

\* ------------------------------------------------------------ resuming
\* The operator resumes for as long as it takes: calls are not counted.  The
\* source holds one note for each blogger, fewer than every target asked
\* for; the crawler runs succeed and write what the source holds for the
\* run's bloggers, with or without the notes of the exclusion map.
Source == [x \in NoteIds |-> IF x \in Users THEN x ELSE NoUser]

ResumeMaxNotes == {MaxNotes, MaxNotes + 1}

\* Every resume run includes blogger 1.
ResumeLists == {s \in DistinctSeqs(Users) : 1 \in Range(s)}

Excluded(u) == IF u \in DOMAIN crawl.exclude THEN crawl.exclude[u] ELSE {}

SourceOutput(honoured) ==
    LET ids == {x \in NoteIds : /\ Source[x] \in Range(crawl.ids)
                                /\ honoured => x \notin Excluded(Source[x])}
        order == Ascending(ids)
    IN [i \in DOMAIN order |-> [note_id |-> order[i], user_id |-> Source[order[i]]]]

ResumeCall ==
    \E user_ids \in ResumeLists, max_notes \in ResumeMaxNotes, batch_size \in BatchSizes :
       /\ SpecificBegin(user_ids, max_notes, batch_size)
       /\ UNCHANGED ncalls

ResumeCrawl == CrawlChunk(TRUE, TRUE)

ResumeLocate == \E honoured \in BOOLEAN : AfterCrawlSpecific(SourceOutput(honoured))

NextResume ==
    \/ ResumeCall
    \/ ResumeCrawl
    \/ ResumeLocate
    \/ ReconcileSpecific

SpecResume == Init /\ [][NextResume]_vars /\ WF_vars(NextResume)

\* C35: resume converges: a blogger in 'partial' whose source holds fewer
\* notes than the target is eventually left 'completed' with
\* notes_target <= notes_collected by the repeated scrape_specific_bloggers
\* runs.
C35_ResumeConverges ==
    (pc = "returned" /\ 1 \in ResumableSet(bloggers)) ~>
        (/\ pc = "returned"
         /\ bloggers[1].scrape_status = "completed"
         /\ bloggers[1].notes_target <= bloggers[1].notes_collected)

\* The bloggers the reconciliation loop processed (did not skip as already
\* completed) that were 'partial' when the call began.
ResumedBloggers ==
    {u \in Range(scope) : /\ trace[u].branch \in {"no_notes", "counted"}
                          /\ pre.bloggers[u].scrape_status = "partial"}

\* C36: stats.resumed returned by scrape_pending_bloggers is the number of
\* processed bloggers that were 'partial' when the call began (each blogger
\* being once in the call's list).
C36_ResumedCountsPartial ==
    (/\ fn = "pending" /\ ReconciledAll
     /\ \A u \in Range(scope) : Occurrences(u) = 1) =>
        stats.resumed = Cardinality(ResumedBloggers)

\* The notes that are in the store and were not in it when the call began.
NewlyStored == {x \in NoteIds : notes[x] # NoUser /\ pre.notes[x] = NoUser}

\* C37: stats.notes_added returned by the call is the net growth of the
\* notes table (the output attributing each note to its one owner, each
\* blogger being once in the call's list).
C37_NotesAddedIsGrowth ==
    (/\ ReconciledAll /\ OwnersKept
     /\ \A u \in Range(scope) : Occurrences(u) = 1) =>
        stats.notes_added = Cardinality(NewlyStored)

\* C38: the output file a call reconciles after its crawler run was written
\* by that run's own crawler invocations.
C38_ReconciledFileIsOwn ==
    (CrawlerPath /\ pc = "reconcile") => FreshOutput

\* ------------------------------------------------------ the derived columns
\* NoteDB.update_outlier_status, called by the analyzer between pipeline
\* calls: UPDATE notes SET is_outlier = ? WHERE note_id = ?.
update_outlier_status(note_id, is_outlier) ==
    /\ pc \in {"idle", "returned"}
    /\ notes[note_id] # NoUser
    /\ derived[note_id].is_outlier # is_outlier
    /\ derived' = [derived EXCEPT ![note_id] = [@ EXCEPT !.is_outlier = is_outlier]]
    /\ UNCHANGED <<bloggers, notes, creator_files, search_files, pc, fn, args,
                   scope, crawl, latest_file, idx, stats, pre, trace, ncalls,
                   nops, exec>>

\* NoteDB.update_local_cover_path, called by the cover download.
update_local_cover_path(note_id, local_path) ==
    /\ pc \in {"idle", "returned"}
    /\ notes[note_id] # NoUser
    /\ derived[note_id].local_cover_path # local_path
    /\ derived' = [derived EXCEPT ![note_id] = [@ EXCEPT !.local_cover_path = local_path]]
    /\ UNCHANGED <<bloggers, notes, creator_files, search_files, pc, fn, args,
                   scope, crawl, latest_file, idx, stats, pre, trace, ncalls,
                   nops, exec>>

Analyze == \E x \in NoteIds, is_outlier \in BOOLEAN : update_outlier_status(x, is_outlier)

Download == \E x \in NoteIds : update_local_cover_path(x, "cover")

\* Resume calls with the analyzer and the cover download between them.
NextMerge ==
    \/ SpecificCall
    \/ Crawler
    \/ LocateSpecific
    \/ ReconcileSpecific
    \/ Analyze
    \/ Download

SpecMerge == Init /\ [][NextMerge]_vars

\* C39: merging an item whose note id is already stored leaves the stored
\* note's is_outlier and local_cover_path as they were (the output
\* attributing each note to its one owner).
C39_MergeKeepsDerived ==
    [][(pc = "reconcile" /\ OwnersKept) =>
          \A x \in NoteIds : notes[x] # NoUser => derived'[x] = derived[x]]_vars

====
